---- MODULE Spec2Model ----
(***************************************************************************)
(* Model of google_scholar_paper_scraper.py: the listing paginator         *)
(* (fetch_and_parse), the filename derivation (_safe_filename), the        *)
(* single-author run (scrape_author_papers) and the multi-author driver    *)
(* (scrape_from_source).                                                   *)
(*                                                                         *)
(* Text is modelled as sequences of one-character strings, so that the     *)
(* regular-expression substitution, the trimming and the year search are   *)
(* computed character by character.                                        *)
(***************************************************************************)
EXTENDS Integers, Sequences, FiniteSets, TLC

VARIABLES
    \* ---- fetch_and_parse (lines 148-158) ----
    served,       \* environment: the listing pages the site serves, by page index
    results,      \* local `results`
    pagination,   \* local `pagination` (the cstart offset)
    fp_pc,        \* "idle" | "running" | "returned" | "raised"
    fp_err,       \* "none" | "HTTPError" | "IndexError"
    \* ---- scrape_author_papers (lines 328-445) ----
    pc,                  \* position in scrape_author_papers
    scholar_link,        \* parameter
    use_selenium,        \* parameter
    max_papers,          \* parameter
    author_id,           \* local
    items,               \* local: the stubs fetch_and_parse returned
    original_dir,        \* local
    downloaded_papers,   \* local: the ledger (a set of file names)
    papers_metadata,     \* local: the records appended so far
    downloaded_count,    \* local
    skipped_count,       \* local
    idx,                 \* number of items the for loop has consumed
    pending_exc,         \* an exception is propagating through `finally`
    \* ---- process and file system ----
    cwd,                 \* the process working directory
    driver,              \* module global `driver`: "None" | "live"
    selenium_available,  \* module global SELENIUM_AVAILABLE
    folder_files,        \* the *.pdf files of the author's folder
    table,               \* papers_metadata.csv of the author's folder
    io_log,              \* per consumed item: what was requested and written
    at_call,             \* cwd, folder and table when scrape_author_papers was called
    \* ---- scrape_from_source (lines 447-484) ----
    src_pc,        \* "idle" | "check" | "rows" | "done" | "raised"
    df,            \* the loaded table: [columns, rows]
    column_name,   \* parameter, reassigned by the fallback
    row_i,         \* number of rows iterrows() has yielded
    src_log,       \* per row yielded: "skipped" | "returned" | "raised"
    src_err,       \* the exception scrape_from_source raised, if any
    \* ---- one call of a function without side effects ----
    fn_pc,         \* "idle" | "call" | "done"
    fn_in,         \* the argument
    fn_out,        \* what the call produced
    \* ---- browser processes ----
    live_browsers  \* number of browsers started by uc.Chrome and not quit

fpVars == <<served, results, pagination, fp_pc, fp_err>>

authorVars ==
    <<pc, scholar_link, use_selenium, max_papers, author_id, items,
      original_dir, downloaded_papers, papers_metadata, downloaded_count,
      skipped_count, idx, pending_exc, cwd, driver, selenium_available,
      folder_files, table, io_log, at_call, live_browsers>>

srcVars == <<src_pc, df, column_name, row_i, src_log, src_err>>

fnVars == <<fn_pc, fn_in, fn_out>>

vars == <<fpVars, authorVars, srcVars, fnVars>>

-----------------------------------------------------------------------------
(* Bounds of the model *)
MaxPages == 3
MaxPageLen == 2
MaxItems == 2
MaxCap == 1
MaxRows == 3

(* Program constants *)
PageSize == 100

-----------------------------------------------------------------------------
(* Text helpers *)

T_Foo == <<"F", "o", "o">>
T_AslashB == <<"A", "/", "B">>
T_AcolonB == <<"A", ":", "B">>

T_pdf == <<".", "p", "d", "f">>
T_paper == <<"p", "a", "p", "e", "r">>
T_2020 == <<"2", "0", "2", "0">>
T_May2020 == <<"M", "a", "y", " ", "2", "0", "2", "0">>
T_0000 == <<"0", "0", "0", "0">>
T_nd == <<"n", ".", "d", ".">>
T_AB == <<"A", ",", " ", "B">>

Digits == {"0", "1", "2", "3", "4", "5", "6", "7", "8", "9"}
Letters ==
    {"a", "b", "c", "d", "e", "f", "g", "h", "i", "j", "k", "l", "m",
     "n", "o", "p", "q", "r", "s", "t", "u", "v", "w", "x", "y", "z",
     "A", "B", "C", "D", "E", "F", "G", "H", "I", "J", "K", "L", "M",
     "N", "O", "P", "Q", "R", "S", "T", "U", "V", "W", "X", "Y", "Z"}

\* The character class [A-Za-z0-9\-\._ ] of _safe_filename.
SafeChars == Letters \cup Digits \cup {"-", ".", "_", " "}

RECURSIVE DropUnsafe(_)
\* s without its leading run of characters outside the class.
DropUnsafe(s) ==
    IF s = <<>> \/ Head(s) \in SafeChars THEN s ELSE DropUnsafe(Tail(s))

RECURSIVE re_sub_unsafe_each(_)
\* The substitution read character by character, without the `+` of the
\* pattern: every unsafe character gets its own "_".
re_sub_unsafe_each(s) ==
    IF s = <<>> THEN <<>>
    ELSE IF Head(s) \in SafeChars
         THEN <<Head(s)>> \o re_sub_unsafe_each(Tail(s))
         ELSE <<"_">> \o re_sub_unsafe_each(Tail(s))

RECURSIVE re_sub_unsafe(_)
\* re.sub(r"[^A-Za-z0-9\-\._ ]+", "_", name): every maximal run of characters
\* outside the class becomes one "_".
re_sub_unsafe(s) ==
    IF s = <<>> THEN <<>>
    ELSE IF Head(s) \in SafeChars
         THEN <<Head(s)>> \o re_sub_unsafe(Tail(s))
         ELSE <<"_">> \o re_sub_unsafe(DropUnsafe(s))

\* The white-space characters of the modelled texts.
Whitespace == {" ", "TAB", "NL"}

RECURSIVE lstrip(_)
lstrip(s) == IF s # <<>> /\ Head(s) \in Whitespace THEN lstrip(Tail(s)) ELSE s

RECURSIVE rstrip(_)
rstrip(s) ==
    IF s # <<>> /\ s[Len(s)] \in Whitespace
    THEN rstrip(SubSeq(s, 1, Len(s) - 1))
    ELSE s

\* Mutant of strip: at most one white-space character is removed per side.
strip_once(s) ==
    LET l == IF s # <<>> /\ Head(s) \in Whitespace THEN Tail(s) ELSE s
    IN IF l # <<>> /\ l[Len(l)] \in Whitespace
       THEN SubSeq(l, 1, Len(l) - 1)
       ELSE l

\* str.strip()
strip(s) == rstrip(lstrip(s))

\* _safe_filename(name) with the default "paper".
_safe_filename(name) ==
    LET n == strip(re_sub_unsafe(name))
    IN IF n = <<>> THEN T_paper ELSE n

\* `year = None`
NoYear == -1

DigitVal(c) == CHOOSE n \in 0..9 : <<"0", "1", "2", "3", "4", "5", "6", "7", "8", "9">>[n + 1] = c

RECURSIVE int_of(_)
\* int(digits)
int_of(ds) ==
    IF ds = <<>> THEN 0
    ELSE 10 * int_of(SubSeq(ds, 1, Len(ds) - 1)) + DigitVal(ds[Len(ds)])

RECURSIVE str_of(_)
\* str(n) for n >= 0, as formatted by an f-string
str_of(n) ==
    IF n < 10 THEN <<(<<"0", "1", "2", "3", "4", "5", "6", "7", "8", "9">>)[n + 1]>>
    ELSE str_of(n \div 10) \o str_of(n % 10)

\* re.search(r'(\d{4})', date) and int(group(1)): the first four consecutive
\* digits, else None.
year_of(date) ==
    LET hits == { i \in 1..(Len(date) - 3) :
                    \A j \in 0..3 : date[i + j] \in Digits }
    IN IF hits = {} THEN NoYear
       ELSE LET i == CHOOSE h \in hits : \A g \in hits : h <= g
            IN int_of(SubSeq(date, i, i + 3))

\* f"{title}({year})" if year else title  (a year of 0 is falsy, like None)
base_name(title, year) ==
    IF year # NoYear /\ year # 0
    THEN title \o <<"(">> \o str_of(year) \o <<")">>
    ELSE title

\* _safe_filename(base_name) + ".pdf"
pdf_name(title, year) == _safe_filename(base_name(title, year)) \o T_pdf

T_CitedBy == <<"C", "i", "t", "e", "d", " ", "b", "y", " ">>
T_Cited42 == T_CitedBy \o <<"4", "2">>
T_PDF == <<"[", "P", "D", "F", "]">>
T_HTML == <<"[", "H", "T", "M", "L", "]">>

UpperSeq == <<"A", "B", "C", "D", "E", "F", "G", "H", "I", "J", "K", "L", "M",
              "N", "O", "P", "Q", "R", "S", "T", "U", "V", "W", "X", "Y", "Z">>
LowerSeq == <<"a", "b", "c", "d", "e", "f", "g", "h", "i", "j", "k", "l", "m",
              "n", "o", "p", "q", "r", "s", "t", "u", "v", "w", "x", "y", "z">>

\* str.lower(), character by character
lower(s) ==
    [i \in 1..Len(s) |->
        IF \E k \in 1..26 : UpperSeq[k] = s[i]
        THEN LowerSeq[CHOOSE k \in 1..26 : UpperSeq[k] = s[i]]
        ELSE s[i]]

\* `sub in s`
contains(sub, s) ==
    \E i \in 1..(Len(s) - Len(sub) + 1) : SubSeq(s, i, i + Len(sub) - 1) = sub

RECURSIVE TakeDigits(_)
\* the longest prefix of s made of digits
TakeDigits(s) ==
    IF s # <<>> /\ Head(s) \in Digits THEN <<Head(s)>> \o TakeDigits(Tail(s))
    ELSE <<>>

\* re.search(r'Cited by (\d+)', text): int(group(1)) if it matches, else 0
cited_by(text) ==
    LET n == Len(T_CitedBy)
        hits == { i \in 1..(Len(text) - n) :
                    /\ SubSeq(text, i, i + n - 1) = T_CitedBy
                    /\ text[i + n] \in Digits }
    IN IF hits = {} THEN 0
       ELSE LET i == CHOOSE h \in hits : \A g \in hits : h <= g
            IN int_of(TakeDigits(SubSeq(text, i + n, Len(text))))

\* A dict: a function from its keys. dict_get is dict.get(key, default).
EmptyDict == [k \in {} |-> <<>>]
dict_put(d, key, val) ==
    [k \in (DOMAIN d) \cup {key} |-> IF k = key THEN val ELSE d[k]]
dict_get(d, key, default) == IF key \in DOMAIN d THEN d[key] ELSE default

\* str.replace('\xa0', ' '); the non-breaking space is the character "NBSP"
replace_nbsp(s) == [i \in 1..Len(s) |-> IF s[i] = "NBSP" THEN " " ELSE s[i]]

\* The metadata key a field label is stored under (exact match), "" if none.
field_key(field_name) ==
    CASE field_name = "Authors" -> "authors"
      [] field_name = "Publication date" -> "publication_date"
      [] field_name = "Journal" -> "journal"
      [] field_name = "Volume" -> "volume"
      [] field_name = "Issue" -> "issue"
      [] field_name = "Pages" -> "pages"
      [] field_name = "Publisher" -> "publisher"
      [] field_name = "Description" -> "description"
      [] field_name = "Total citations" -> "total_citations_detailed"
      [] OTHER -> ""

RECURSIVE extract_rows(_, _)
\* The loop of extract_paper_metadata over the rows of gsc_oci_table. A row
\* is [name, value, children]: the stripped label, the stripped text of the
\* value cell, and the texts of the value cell's child elements. For
\* "Total citations" the value is getchildren()[0].text_content(), which
\* raises IndexError when the cell has no child element.
extract_rows(rows, metadata) ==
    IF rows = <<>> THEN [raised |-> FALSE, metadata |-> metadata]
    ELSE LET row == Head(rows)
             key == field_key(row.name)
         IN IF row.name = "Total citations" /\ row.children = <<>>
            THEN [raised |-> TRUE, metadata |-> metadata]
            ELSE LET field_value ==
                         IF row.name = "Total citations" THEN row.children[1]
                         ELSE row.value
                     stored ==
                         IF key = "description" THEN replace_nbsp(field_value)
                         ELSE IF key = "total_citations_detailed"
                              THEN cited_by(field_value)
                              ELSE field_value
                 IN extract_rows(Tail(rows),
                                 IF key = "" THEN metadata
                                 ELSE dict_put(metadata, key, stored))

\* extract_paper_metadata(doc)
extract_paper_metadata(rows) == extract_rows(rows, EmptyDict)

\* Mutant of choose_pdf_href: with no matching text the first anchor is
\* taken instead of the last one.
choose_pdf_href_first(pdf_anchors) ==
    IF Len(pdf_anchors) > 1
    THEN LET hits == { i \in 1..Len(pdf_anchors) :
                         contains(<<"p", "d", "f">>, lower(pdf_anchors[i].text)) }
             first == IF hits = {} THEN ""
                      ELSE pdf_anchors[CHOOSE h \in hits : \A g \in hits : h <= g].href
         IN IF first = "" THEN pdf_anchors[1].href ELSE first
    ELSE pdf_anchors[1].href

\* The choice of pdf_href among the anchors (lines 248-258); "" stands for
\* an anchor without href.
choose_pdf_href(pdf_anchors) ==
    IF Len(pdf_anchors) > 1
    THEN LET hits == { i \in 1..Len(pdf_anchors) :
                         contains(<<"p", "d", "f">>, lower(pdf_anchors[i].text)) }
             first == IF hits = {} THEN ""
                      ELSE pdf_anchors[CHOOSE h \in hits : \A g \in hits : h <= g].href
         IN IF first = "" THEN pdf_anchors[Len(pdf_anchors)].href ELSE first
    ELSE pdf_anchors[1].href

\* The publication stubs of the modelled listings: {"title": ..., "url": ...}
Stubs ==
    { [title |-> T_AslashB, url |-> "u1"],
      [title |-> T_AcolonB, url |-> "u2"] }

RECURSIVE SeqsUpTo(_, _)
SeqsUpTo(S, n) ==
    IF n = 0 THEN { <<>> }
    ELSE LET shorter == SeqsUpTo(S, n - 1)
         IN shorter \cup { Append(s, x) : s \in shorter, x \in S }

\* What one call of _fetch_and_parse can parse out of one page.
Pages == SeqsUpTo(Stubs, MaxPageLen)

\* All servers: MaxPages pages, each any page (possibly empty).
Servers == [1..MaxPages -> Pages]

-----------------------------------------------------------------------------
(* fetch_and_parse *)

\* _fetch_and_parse(author_id, link, pagination) when the request succeeds:
\* the rows of the page at offset cstart. Past the last served page the
\* site has nothing left to list.
PageAt(srv, cstart) ==
    LET k == (cstart \div PageSize) + 1
    IN IF k <= Len(srv) THEN srv[k] ELSE <<>>

\* Mutant of fp_iter: the repeat test looks at the first stub of the new page
\* instead of its last one.
fp_iter_first_stub(res, fetched) ==
    IF Len(res) > 0
    THEN IF Len(fetched) = 0
         THEN [pc |-> "raised", err |-> "IndexError", results |-> res]
         ELSE IF res[Len(res)] = fetched[1]
              THEN [pc |-> "returned", err |-> "none", results |-> res]
              ELSE [pc |-> "running", err |-> "none", results |-> res \o fetched]
    ELSE [pc |-> "running", err |-> "none", results |-> res \o fetched]

\* One iteration of the `while True` body after items was fetched:
\* `if len(results) > 0 and results[-1] == items[-1]: break`, else extend.
\* items[-1] on an empty list raises IndexError; `and` short-circuits, so
\* items is not indexed while results is empty.
fp_iter(res, fetched) ==
    IF Len(res) > 0
    THEN IF Len(fetched) = 0
         THEN [pc |-> "raised", err |-> "IndexError", results |-> res]
         ELSE IF res[Len(res)] = fetched[Len(fetched)]
              THEN [pc |-> "returned", err |-> "none", results |-> res]
              ELSE [pc |-> "running", err |-> "none", results |-> res \o fetched]
    ELSE [pc |-> "running", err |-> "none", results |-> res \o fetched]

\* The loop body with a successful page request.
FetchPageOk ==
    /\ fp_pc = "running"
    /\ pagination <= MaxPages * PageSize
    /\ LET r == fp_iter(results, PageAt(served, pagination))
       IN /\ results' = r.results
          /\ fp_pc' = r.pc
          /\ fp_err' = r.err
          /\ pagination' = IF r.pc = "running" THEN pagination + PageSize
                           ELSE pagination
    /\ UNCHANGED <<served, authorVars, srcVars, fnVars>>

\* r.raise_for_status() (or the request itself) raises: it propagates.
FetchPageHttpError ==
    /\ fp_pc = "running"
    /\ pagination <= MaxPages * PageSize
    /\ fp_pc' = "raised"
    /\ fp_err' = "HTTPError"
    /\ UNCHANGED <<served, results, pagination, authorVars, srcVars, fnVars>>

FpIdle ==
    /\ served = <<>>
    /\ results = <<>>
    /\ pagination = 0
    /\ fp_pc = "idle"
    /\ fp_err = "none"

\* No exception.
NoError == [type |-> "None", columns |-> {}]

SrcIdle ==
    /\ src_pc = "idle"
    /\ df = [columns |-> {}, rows |-> <<>>]
    /\ column_name = ""
    /\ row_i = 0
    /\ src_log = <<>>
    /\ src_err = NoError

\* No function call is being observed.
FnIdle ==
    /\ fn_pc = "idle"
    /\ fn_in = <<>>
    /\ fn_out = <<>>

\* scrape_author_papers is not running.
AuthorIdle ==
    /\ pc = "idle"
    /\ scholar_link = <<>>
    /\ use_selenium = FALSE
    /\ max_papers = -1
    /\ selenium_available = FALSE
    /\ folder_files = {}
    /\ table = [exists |-> FALSE, rows |-> <<>>]
    /\ cwd = <<"start">>
    /\ driver = "None"
    /\ author_id = ""
    /\ items = <<>>
    /\ original_dir = <<>>
    /\ downloaded_papers = {}
    /\ papers_metadata = <<>>
    /\ downloaded_count = 0
    /\ skipped_count = 0
    /\ idx = 0
    /\ pending_exc = FALSE
    /\ io_log = <<>>
    /\ live_browsers = 0
    /\ at_call = [cwd |-> cwd, folder_files |-> folder_files, table |-> table]

PaginateInit ==
    /\ served \in Servers
    /\ results = <<>>
    /\ pagination = 0
    /\ fp_pc = "running"
    /\ fp_err = "none"
    /\ AuthorIdle
    /\ SrcIdle
    /\ FnIdle

PaginateNext == FetchPageOk \/ FetchPageHttpError

PaginateSpec == PaginateInit /\ [][PaginateNext]_vars

-----------------------------------------------------------------------------
(* download_pdf_from_scholar_article and the selenium fallback *)

\* The values `result` can take: None, the sentinel string, or the absolute
\* path of the file written.
NoneResult == [kind |-> "None", file |-> <<>>]
SeleniumResult == [kind |-> "downloaded_with_selenium", file |-> <<>>]
PathResult(filename) == [kind |-> "path", file |-> filename]

Row(n, v, ch) == [name |-> n, value |-> v, children |-> ch]
AnchorPDF == [text |-> T_PDF, href |-> "pdf1"]

\* The detail pages the site may answer with: the response status, the rows
\* of gsc_oci_table and the anchors of gsc_oci_title_ggi.
DetailPages ==
    { [status |-> "non200", rows |-> <<>>, anchors |-> <<>>],
      [status |-> "200", rows |-> <<Row("Keywords", T_AB, <<>>)>>,
       anchors |-> <<>>],
      [status |-> "200", rows |-> <<Row("Publication date", T_2020, <<>>)>>,
       anchors |-> <<AnchorPDF>>],
      [status |-> "200", rows |-> <<Row("Authors", T_AB, <<>>)>>,
       anchors |-> <<>>],
      [status |-> "200", rows |-> <<Row("Authors", T_AB, <<>>)>>,
       anchors |-> <<AnchorPDF>>],
      [status |-> "200", rows |-> <<Row("Total citations", T_Cited42, <<>>)>>,
       anchors |-> <<AnchorPDF>>] }

\* What the environment answers during one call: the PDF response, the
\* outcome of open(filename, "wb") and the writes (done, or OSError with no
\* file left), and the selenium driver's behaviour
\* (driver.title raising, uc.Chrome succeeding, driver.get succeeding).
AllEnvs ==
    [pdf : {"200", "non200", "exc"},
     write : {"ok", "OSError"},
     stale : BOOLEAN, create_ok : BOOLEAN, get_ok : BOOLEAN]

\* The page leads to a PDF request (status 200 and a usable href).
RequestsPdf(page) ==
    /\ page.status = "200"
    /\ ~extract_paper_metadata(page.rows).raised
    /\ page.anchors # <<>>
    /\ choose_pdf_href(page.anchors) # ""

\* The environments that differ in something the call reads.
Envs(page, use_sel, avail, drv) ==
    LET req == RequestsPdf(page)
        fallback == req /\ use_sel /\ avail
    IN IF ~req
       THEN { [pdf |-> "200", write |-> "ok", stale |-> FALSE,
               create_ok |-> TRUE, get_ok |-> TRUE] }
       ELSE { e \in AllEnvs :
                LET sel == fallback /\ e.pdf = "non200"
                IN /\ (e.pdf # "200" => e.write = "ok")
                   /\ (~(sel /\ drv = "live") => ~e.stale)
                   /\ (~(sel /\ (drv = "None" \/ e.stale)) => e.create_ok)
                   /\ (~(sel /\ (e.create_ok \/ (drv = "live" /\ ~e.stale)))
                          => e.get_ok) }

\* download_with_selenium(link) with get_driver(): the global driver after
\* the call and whether an exception leaves it.
\* started and quit count the browsers uc.Chrome started and driver.quit()
\* ended during the call (a driver whose .title raises is quit, line 71).
download_with_selenium(drv, avail, e) ==
    IF ~avail THEN [driver |-> drv, raised |-> FALSE, started |-> 0, quit |-> 0]
    ELSE IF drv = "live" /\ ~e.stale
         THEN [driver |-> "live", raised |-> ~e.get_ok, started |-> 0, quit |-> 0]
         ELSE LET q == IF drv = "live" THEN 1 ELSE 0
              IN IF ~e.create_ok
                 THEN [driver |-> "None", raised |-> TRUE, started |-> 0, quit |-> q]
                 ELSE [driver |-> "live", raised |-> ~e.get_ok, started |-> 1,
                       quit |-> q]

\* download_pdf_from_scholar_article(article_url, paper_title, year,
\* use_selenium): the (result, metadata) it returns, whether it raised, and
\* its effects: the PDF request, the file created, the global driver.
download_pdf_from_scholar_article(page, paper_title, year, use_sel, drv, avail, e) ==
    LET none == [raised |-> FALSE, result |-> NoneResult, has_metadata |-> FALSE,
                 metadata |-> EmptyDict, detail_ok |-> FALSE, pdf_get |-> FALSE,
                 wrote |-> <<>>, driver |-> drv, exit |-> "detail_failed",
                 href |-> "", started |-> 0, quit |-> 0]
    IN IF page.status # "200" THEN none
       ELSE LET ex == extract_paper_metadata(page.rows)
                got == [none EXCEPT !.detail_ok = TRUE, !.has_metadata = TRUE,
                                    !.metadata = ex.metadata, !.exit = "no_link"]
            IN IF ex.raised
               THEN [none EXCEPT !.raised = TRUE, !.detail_ok = TRUE,
                                 !.exit = "extract_raised"]
               ELSE IF page.anchors = <<>> \/ choose_pdf_href(page.anchors) = ""
               THEN got
               ELSE LET req == [got EXCEPT !.pdf_get = TRUE,
                                           !.href = choose_pdf_href(page.anchors)]
               IN IF e.pdf = "exc" THEN [req EXCEPT !.exit = "pdf_exception"]
               ELSE IF e.pdf = "non200"
               THEN IF use_sel
                    THEN LET sel == download_with_selenium(drv, avail, e)
                         IN [req EXCEPT !.exit = "pdf_non200",
                                        !.driver = sel.driver,
                                        !.started = sel.started,
                                        !.quit = sel.quit,
                                        !.result = IF sel.raised THEN NoneResult
                                                   ELSE SeleniumResult]
                    ELSE [req EXCEPT !.exit = "pdf_non200"]
               ELSE LET filename == pdf_name(paper_title, year)
                    IN IF e.write = "ok"
                       THEN [req EXCEPT !.exit = "saved", !.wrote = filename,
                                        !.result = PathResult(filename)]
                       ELSE [req EXCEPT !.exit = "write_error"]

-----------------------------------------------------------------------------
(* scrape_author_papers *)

\* A profile link, as the list of its query parameters.
Link_A == << [k |-> "hl", v |-> "en"], [k |-> "user", v |-> "idA"] >>
ScholarLinks == { Link_A }

\* get_author_id(author_name, link) with a link given:
\* parse_qs(urlparse(link).query).get("user", [""])[0]; parse_qs drops
\* parameters with a blank value.
get_author_id(link) ==
    LET hits == { i \in 1..Len(link) : link[i].k = "user" /\ link[i].v # "" }
    IN IF hits = {} THEN ""
       ELSE link[CHOOSE h \in hits : \A g \in hits : h <= g].v

RECURSIVE fp_run(_, _, _, _)
\* fetch_and_parse run to its end on a site whose requests succeed: the
\* record of its last iteration, or pc = "running" when the loop has not
\* ended after `fuel` iterations.
fp_run(srv, res, cstart, fuel) ==
    IF fuel = 0 THEN [pc |-> "running", err |-> "none", results |-> res]
    ELSE LET r == fp_iter(res, PageAt(srv, cstart))
         IN IF r.pc = "running"
            THEN fp_run(srv, r.results, cstart + PageSize, fuel - 1)
            ELSE r

\* fetch_and_parse(author_id, link). Past the served pages every page is
\* empty, so a loop still running after Len(srv) + 2 iterations never ends.
fetch_and_parse(srv) == fp_run(srv, <<>>, 0, Len(srv) + 2)

\* The sites an author's listing is fetched from in a run. The two stubs
\* differ in nothing but their names (their file names are the same), so the
\* listings that start with the second one mirror those that start with the
\* first and are left out.
AuthorServers ==
    { srv \in [1..2 -> SeqsUpTo(Stubs, MaxItems)] :
        srv[1] = <<>> \/ srv[1][1].url = "u1" }

StartDir == << "start" >>

\* f"output/author_{author_id}"
folder_name(id) == << "output", "author_", id >>

\* os.chdir(path) for a relative path
chdir(from, path) == from \o path

NoTable == [exists |-> FALSE, rows |-> <<>>]

\* `not metadata`: None and the empty dict are both falsy.
metadata_falsy(d) == ~d.has_metadata \/ DOMAIN d.metadata = {}

\* Lines 389-393: the year of the metadata's publication date, or None.
year_from(metadata) ==
    IF dict_get(metadata, "publication_date", <<>>) # <<>>
    THEN year_of(metadata["publication_date"])
    ELSE NoYear

\* Lines 399-412: the record of one paper, before its status is set.
paper_record(item, metadata, filename) ==
    [title |-> item.title,
     authors |-> dict_get(metadata, "authors", <<>>),
     publication_date |-> dict_get(metadata, "publication_date", <<>>),
     journal |-> dict_get(metadata, "journal", <<>>),
     volume |-> dict_get(metadata, "volume", <<>>),
     issue |-> dict_get(metadata, "issue", <<>>),
     pages |-> dict_get(metadata, "pages", <<>>),
     publisher |-> dict_get(metadata, "publisher", <<>>),
     description |-> dict_get(metadata, "description", <<>>),
     total_citations |-> dict_get(metadata, "total_citations_detailed", 0),
     scholar_url |-> item.url,
     pdf_filename |-> filename,
     download_status |-> "unset"]

\* Mutant of disposition: a download that returned a result wins over the
\* ledger test.
disposition_result_first(filename, ledger, result) ==
    IF result.kind # "None" THEN "downloaded"
    ELSE IF filename \in ledger THEN "already_exists"
    ELSE "failed"

\* Lines 414-423: the download_status of a record.
disposition(filename, ledger, result) ==
    IF filename \in ledger THEN "already_exists"
    ELSE IF result.kind # "None" THEN "downloaded"
    ELSE "failed"

\* Mutant of cap_reached: the test is off by one.
cap_reached_late(maxp, count) == maxp > 0 /\ count > maxp

\* Line 370: `max_papers > 0 and downloaded_count >= max_papers`
cap_reached(maxp, count) == maxp > 0 /\ count >= maxp

\* Mutant of to_csv: the rows are added to the rows already in the file.
to_csv_append(old, records) == [exists |-> TRUE, rows |-> old.rows \o records]

\* Lines 429-431: DataFrame(papers_metadata).to_csv(...) replaces the file by
\* one row per record, in order.
to_csv(old, records) == [exists |-> TRUE, rows |-> records]

\* Mutant of restore_dir: the directory is left where it is.
restore_dir_skip(orig, current) == current

\* Line 440: os.chdir(original_dir)
restore_dir(orig, current) == orig

\* A row left in papers_metadata.csv by an earlier run.
PriorRecord ==
    [paper_record([title |-> T_Foo, url |-> "u0"], EmptyDict, pdf_name(T_Foo, NoYear))
        EXCEPT !.download_status = "failed"]
PriorTable == [exists |-> TRUE, rows |-> << PriorRecord >>]

\* The *.pdf files the author's folder may hold when a run starts.
InitFolders ==
    { {},
      { pdf_name(T_AslashB, year_of(T_2020)) } }

\* The state when scrape_author_papers is called.
AuthorInit ==
    /\ pc = "start"
    /\ scholar_link \in ScholarLinks
    /\ use_selenium \in BOOLEAN
    /\ max_papers \in {-1} \cup (1..MaxCap)
    /\ selenium_available \in BOOLEAN
    /\ (~use_selenium => ~selenium_available)  \* read only by the fallback
    /\ folder_files \in InitFolders
    /\ table \in {NoTable, PriorTable}
    /\ (table = PriorTable <=> folder_files # {})  \* a fresh folder, or an earlier run's
    /\ cwd = StartDir
    /\ driver = "None"
    /\ author_id = ""
    /\ items = <<>>
    /\ original_dir = <<>>
    /\ downloaded_papers = {}
    /\ papers_metadata = <<>>
    /\ downloaded_count = 0
    /\ skipped_count = 0
    /\ idx = 0
    /\ pending_exc = FALSE
    /\ io_log = <<>>
    /\ live_browsers = 0
    /\ at_call = [cwd |-> cwd, folder_files |-> folder_files, table |-> table]

localVars ==
    <<author_id, items, original_dir, downloaded_papers, papers_metadata,
      downloaded_count, skipped_count, idx, pending_exc>>
paramVars ==
    <<scholar_link, use_selenium, max_papers, selenium_available, at_call>>
worldVars == <<cwd, driver, folder_files, table, io_log, live_browsers>>

\* Line 338: author_id = get_author_id(None, scholar_link)
GetAuthorId ==
    /\ pc = "start"
    /\ author_id' = get_author_id(scholar_link)
    /\ pc' = "paginate"
    /\ UNCHANGED <<items, original_dir, downloaded_papers, papers_metadata,
                   downloaded_count, skipped_count, idx, pending_exc>>
    /\ UNCHANGED <<paramVars, worldVars, fpVars, srcVars, fnVars>>

\* Line 341: items = fetch_and_parse(author_id, scholar_link), on any site.
\* It returns the stubs, raises (IndexError), or never returns.
FetchAndParse ==
    /\ pc = "paginate"
    /\ \E srv \in AuthorServers :
          LET r == fetch_and_parse(srv)
          IN /\ items' = IF r.pc = "returned" THEN r.results ELSE items
             /\ pc' = CASE r.pc = "returned" -> "makedirs"
                        [] r.pc = "raised" -> "raised"
                        [] OTHER -> "hung"
    /\ UNCHANGED <<author_id, original_dir, downloaded_papers, papers_metadata,
                   downloaded_count, skipped_count, idx, pending_exc>>
    /\ UNCHANGED <<paramVars, worldVars, fpVars, srcVars, fnVars>>

\* Line 341 when a listing request fails: raise_for_status() propagates.
FetchAndParseHttpError ==
    /\ pc = "paginate"
    /\ pc' = "raised"
    /\ UNCHANGED <<localVars, paramVars, worldVars, fpVars, srcVars, fnVars>>

\* Lines 344-345: os.makedirs(folder_name, exist_ok=True), or OSError.
MakeDirs ==
    /\ pc = "makedirs"
    /\ pc' \in {"chdir", "raised"}
    /\ UNCHANGED <<localVars, paramVars, worldVars, fpVars, srcVars, fnVars>>

\* Lines 348-349: original_dir = os.getcwd(); os.chdir(folder_name)
ChdirToFolder ==
    /\ pc = "chdir"
    /\ original_dir' = cwd
    /\ cwd' = chdir(cwd, folder_name(author_id))
    /\ pc' = "glob"
    /\ UNCHANGED <<author_id, items, downloaded_papers, papers_metadata,
                   downloaded_count, skipped_count, idx, pending_exc>>
    /\ UNCHANGED <<driver, folder_files, table, io_log, live_browsers>>
    /\ UNCHANGED <<paramVars, fpVars, srcVars, fnVars>>

\* Line 349 when os.chdir raises: the directory is not changed.
ChdirFails ==
    /\ pc = "chdir"
    /\ original_dir' = cwd
    /\ pc' = "raised"
    /\ UNCHANGED <<author_id, items, downloaded_papers, papers_metadata,
                   downloaded_count, skipped_count, idx, pending_exc>>
    /\ UNCHANGED <<paramVars, worldVars, fpVars, srcVars, fnVars>>

\* Lines 353-367: the ledger is seeded with glob('*.pdf').
SeedLedger ==
    /\ pc = "glob"
    /\ downloaded_papers' = folder_files
    /\ papers_metadata' = <<>>
    /\ downloaded_count' = 0
    /\ skipped_count' = 0
    /\ idx' = 0
    /\ pc' = "loop"
    /\ UNCHANGED <<author_id, items, original_dir, pending_exc>>
    /\ UNCHANGED <<paramVars, worldVars, fpVars, srcVars, fnVars>>

\* Lines 369-425: one iteration of the for loop on items[idx], with the
\* detail page and the environment the download call meets.
ProcessItem ==
    /\ pc = "loop"
    /\ idx < Len(items)
    /\ ~cap_reached(max_papers, downloaded_count)
    /\ \E page \in DetailPages :
       \E e \in Envs(page, use_selenium, selenium_available, driver) :
          LET item == items[idx + 1]
              d == download_pdf_from_scholar_article(
                       page, item.title, NoYear, use_selenium, driver,
                       selenium_available, e)
              filename == pdf_name(item.title, year_from(d.metadata))
              status == disposition(filename, downloaded_papers, d.result)
              record == [paper_record(item, d.metadata, filename)
                            EXCEPT !.download_status = status]
          IN /\ driver' = d.driver
             /\ live_browsers' = live_browsers - d.quit + d.started
             /\ folder_files' = IF d.wrote = <<>> THEN folder_files
                                ELSE folder_files \cup {d.wrote}
             /\ io_log' = Append(io_log,
                                 [url |-> item.url, detail_ok |-> d.detail_ok,
                                  pdf_get |-> d.pdf_get, wrote |-> d.wrote,
                                  result |-> d.result.kind, exit |-> d.exit,
                                  started |-> d.started, quit |-> d.quit])
             /\ idx' = idx + 1
             /\ IF d.raised
                THEN \* an exception other than RequestException leaves the call
                     /\ pc' = "finally"
                     /\ pending_exc' = TRUE
                     /\ UNCHANGED <<downloaded_papers, papers_metadata,
                                    downloaded_count, skipped_count>>
                ELSE IF metadata_falsy(d)
                THEN \* lines 383-385: `continue`
                     /\ UNCHANGED <<pc, pending_exc, downloaded_papers,
                                    papers_metadata, downloaded_count,
                                    skipped_count>>
                ELSE /\ papers_metadata' = Append(papers_metadata, record)
                     /\ downloaded_papers' =
                            IF status = "downloaded"
                            THEN downloaded_papers \cup {filename}
                            ELSE downloaded_papers
                     /\ downloaded_count' =
                            IF status = "downloaded" THEN downloaded_count + 1
                            ELSE downloaded_count
                     /\ skipped_count' =
                            IF status = "already_exists" THEN skipped_count + 1
                            ELSE skipped_count
                     /\ UNCHANGED <<pc, pending_exc>>
    /\ UNCHANGED <<author_id, items, original_dir, cwd, table>>
    /\ UNCHANGED <<paramVars, fpVars, srcVars, fnVars>>

\* Mutant of loop_done: the loop ends after its first iteration.
loop_done_early == idx >= 1 \/ cap_reached(max_papers, downloaded_count)

\* The for loop has ended: the items are exhausted, or line 371 breaks.
loop_done == idx = Len(items) \/ cap_reached(max_papers, downloaded_count)

\* Lines 428-437 after the loop: the table is written when there is at least
\* one record.
FlushTable ==
    /\ pc = "loop"
    /\ loop_done
    /\ table' = IF papers_metadata # <<>> THEN to_csv(table, papers_metadata)
                ELSE table
    /\ pc' = "finally"
    /\ UNCHANGED <<cwd, driver, folder_files, io_log, live_browsers>>
    /\ UNCHANGED <<localVars, paramVars, fpVars, srcVars, fnVars>>

\* Line 431 when to_csv raises OSError.
FlushFails ==
    /\ pc = "loop"
    /\ loop_done
    /\ papers_metadata # <<>>
    /\ pending_exc' = TRUE
    /\ pc' = "finally"
    /\ UNCHANGED <<author_id, items, original_dir, downloaded_papers,
                   papers_metadata, downloaded_count, skipped_count, idx>>
    /\ UNCHANGED <<paramVars, worldVars, fpVars, srcVars, fnVars>>

\* KeyboardInterrupt raised inside the try block, between two iterations or
\* during one: it is caught by nothing and passes through `finally`.
Interrupt ==
    /\ pc = "loop"
    /\ pending_exc' = TRUE
    /\ pc' = "finally"
    /\ UNCHANGED <<author_id, items, original_dir, downloaded_papers,
                   papers_metadata, downloaded_count, skipped_count, idx>>
    /\ UNCHANGED <<paramVars, worldVars, fpVars, srcVars, fnVars>>

\* Mutant of close_driver: the driver is left as it is.
close_driver_never(drv, live) == [driver |-> drv, live |-> live]

\* Lines 442-445: `if driver: driver.quit(); driver = None`
close_driver(drv, live) ==
    IF drv # "None" THEN [driver |-> "None", live |-> live - 1]
    ELSE [driver |-> drv, live |-> live]

\* Lines 439-445: the finally clause, then the return or the re-raise.
Finally ==
    /\ pc = "finally"
    /\ cwd' = restore_dir(original_dir, cwd)
    /\ driver' = close_driver(driver, live_browsers).driver
    /\ live_browsers' = close_driver(driver, live_browsers).live
    /\ pc' = IF pending_exc THEN "raised" ELSE "returned"
    /\ UNCHANGED <<folder_files, table, io_log>>
    /\ UNCHANGED <<localVars, paramVars, fpVars, srcVars, fnVars>>

Init == AuthorInit /\ FpIdle /\ SrcIdle /\ FnIdle

Next ==
    \/ GetAuthorId
    \/ FetchAndParse
    \/ FetchAndParseHttpError
    \/ MakeDirs
    \/ ChdirToFolder
    \/ ChdirFails
    \/ SeedLedger
    \/ ProcessItem
    \/ Interrupt
    \/ FlushTable
    \/ FlushFails
    \/ Finally

Spec == Init /\ [][Next]_vars

\* The interpreter keeps executing the function: a step that can be taken is
\* taken (every request has a timeout, every loop of the body is finite).
LiveSpec == Init /\ [][Next]_vars /\ WF_vars(Next)

-----------------------------------------------------------------------------
(* scrape_from_source *)

T_link == <<"h", "t", "t", "p", "s">>

\* The cells a link column may hold: NaN, "", " " and a link.
Cells ==
    { [isna |-> TRUE, text |-> <<>>],
      [isna |-> FALSE, text |-> <<>>],
      [isna |-> FALSE, text |-> <<" ">>],
      [isna |-> FALSE, text |-> T_link] }

\* The column sets of the loaded tables.
ColumnSets ==
    { {"Name"}, {"Name", "scholar_link"}, {"Name", "Google Scholar Page"} }

\* The tables load_data_source may return: one cell per row in the link
\* column, if any, and a name.
Tables ==
    { [columns |-> cols,
       rows |-> [i \in 1..Len(cells) |->
                    [c \in cols |-> IF c = "Name"
                                    THEN [isna |-> FALSE, text |-> T_AB]
                                    ELSE cells[i]]]] :
      cols \in ColumnSets, cells \in SeqsUpTo(Cells, MaxRows) }

\* Mutant of skip_row: only NaN cells are skipped.
skip_row_nan_only(cell) == cell.isna

\* Line 474: pd.isna(scholar_link) or not scholar_link.strip()
skip_row(cell) == cell.isna \/ strip(cell.text) = <<>>

\* Mutant of after_author_error: the exception ends the run.
after_author_error_abort == "raised"

\* Lines 482-484: `except Exception` prints and continues with the next row.
after_author_error == "rows"

SourceInit ==
    /\ src_pc = "check"
    /\ df \in Tables
    /\ column_name \in {"Google Scholar Page", "scholar_link"}
    /\ row_i = 0
    /\ src_log = <<>>
    /\ src_err = NoError
    /\ AuthorIdle
    /\ FpIdle
    /\ FnIdle

\* Mutant of column_check: with neither column present the first column of
\* the table, "Name", is read instead.
column_check_any_column(name, columns) ==
    IF name \in columns
    THEN [pc |-> "rows", column_name |-> name, err |-> NoError]
    ELSE IF "scholar_link" \in columns
         THEN [pc |-> "rows", column_name |-> "scholar_link", err |-> NoError]
         ELSE [pc |-> "rows", column_name |-> "Name", err |-> NoError]

\* Lines 460-466: the configured column, else the fallback 'scholar_link',
\* else ValueError with the available columns in its message.
column_check(name, columns) ==
    IF name \in columns
    THEN [pc |-> "rows", column_name |-> name, err |-> NoError]
    ELSE IF "scholar_link" \in columns
         THEN [pc |-> "rows", column_name |-> "scholar_link", err |-> NoError]
         ELSE [pc |-> "raised", column_name |-> name,
               err |-> [type |-> "ValueError", columns |-> columns]]

\* Lines 460-468: the column check with its fallback.
CheckColumn ==
    /\ src_pc = "check"
    /\ LET c == column_check(column_name, df.columns)
       IN /\ src_pc' = c.pc
          /\ column_name' = c.column_name
          /\ src_err' = c.err
    /\ UNCHANGED <<df, row_i, src_log, authorVars, fpVars, fnVars>>

\* Lines 470-476: a row with an empty link is skipped.
SkipRow ==
    /\ src_pc = "rows"
    /\ row_i < Len(df.rows)
    /\ skip_row(df.rows[row_i + 1][column_name])
    /\ row_i' = row_i + 1
    /\ src_log' = Append(src_log, [row |-> row_i + 1, outcome |-> "skipped"])
    /\ UNCHANGED <<src_pc, df, column_name, src_err, authorVars, fpVars, fnVars>>

\* Lines 480-481: scrape_author_papers(scholar_link, ...) returns.
AuthorReturns ==
    /\ src_pc = "rows"
    /\ row_i < Len(df.rows)
    /\ ~skip_row(df.rows[row_i + 1][column_name])
    /\ row_i' = row_i + 1
    /\ src_log' = Append(src_log, [row |-> row_i + 1, outcome |-> "returned"])
    /\ UNCHANGED <<src_pc, df, column_name, src_err, authorVars, fpVars, fnVars>>

\* Lines 480-484: scrape_author_papers raises an Exception.
AuthorRaises ==
    /\ src_pc = "rows"
    /\ row_i < Len(df.rows)
    /\ ~skip_row(df.rows[row_i + 1][column_name])
    /\ row_i' = row_i + 1
    /\ src_log' = Append(src_log, [row |-> row_i + 1, outcome |-> "raised"])
    /\ src_pc' = after_author_error
    /\ UNCHANGED <<df, column_name, src_err, authorVars, fpVars, fnVars>>

\* iterrows() is exhausted: scrape_from_source returns.
SourceDone ==
    /\ src_pc = "rows"
    /\ row_i = Len(df.rows)
    /\ src_pc' = "done"
    /\ UNCHANGED <<df, column_name, row_i, src_log, src_err, authorVars, fpVars, fnVars>>

SourceNext ==
    CheckColumn \/ SkipRow \/ AuthorReturns \/ AuthorRaises \/ SourceDone

SourceSpec == SourceInit /\ [][SourceNext]_vars

-----------------------------------------------------------------------------
(* Single calls of get_author_id, _safe_filename, extract_paper_metadata and
   download_pdf_from_scholar_article, on every argument up to a bound *)

MaxParams == 3
MaxNameLen == 4
MaxFields == 2
MaxAnchors == 3

FnCall(inputs) ==
    /\ fn_pc = "call"
    /\ fn_in \in inputs
    /\ fn_out = <<>>
    /\ FpIdle
    /\ AuthorIdle
    /\ SrcIdle

\* ---- get_author_id ----

\* The query parameters a link may carry; `user=` has a blank value.
QueryParams ==
    { [k |-> "user", v |-> "idA"], [k |-> "user", v |-> ""],
      [k |-> "hl", v |-> "en"] }
Links == SeqsUpTo(QueryParams, MaxParams)

\* What the name search of lines 40-43 meets: requests.get raising, a page
\* with no result table (also what a non-2xx answer parses to, the status
\* not being looked at), or the first link of the first result.
SearchAnswers ==
    { [kind |-> "RequestException", link |-> <<>>],
      [kind |-> "no_result_row", link |-> <<>>] }
    \cup { [kind |-> "row", link |-> l] : l \in Links }

\* The author references: a link (a non-empty string) or none, and for
\* the second the answer of the search.
References ==
    { [has_link |-> TRUE, link |-> l,
       search |-> [kind |-> "unused", link |-> <<>>]] : l \in Links }
    \cup { [has_link |-> FALSE, link |-> <<>>, search |-> s] : s \in SearchAnswers }

\* get_author_id(author_name, link), lines 21-48, both branches.
get_author_id_any(ref) ==
    IF ref.has_link
    THEN [raised |-> FALSE, id |-> get_author_id(ref.link)]
    ELSE IF ref.search.kind = "RequestException"
         THEN [raised |-> TRUE, id |-> ""]
         ELSE IF ref.search.kind = "no_result_row"
              THEN [raised |-> TRUE, id |-> ""]     \* [0] on an empty list
              ELSE [raised |-> FALSE, id |-> get_author_id(ref.search.link)]

ResolveInit == FnCall(References)

ResolveCall ==
    /\ fn_pc = "call"
    /\ fn_out' = get_author_id_any(fn_in)
    /\ fn_pc' = "done"
    /\ UNCHANGED <<fn_in, fpVars, authorVars, srcVars>>

ResolveSpec == ResolveInit /\ [][ResolveCall]_vars

\* ---- _safe_filename ----

\* The characters of the modelled names: a letter, a space, an unsafe
\* character and an unsafe white-space character.
NameChars == { "a", " ", "/", "NL" }
Names == SeqsUpTo(NameChars, MaxNameLen)

SanitizeInit == FnCall(Names)

SanitizeCall ==
    /\ fn_pc = "call"
    /\ fn_out' = _safe_filename(fn_in)
    /\ fn_pc' = "done"
    /\ UNCHANGED <<fn_in, fpVars, authorVars, srcVars>>

SanitizeSpec == SanitizeInit /\ [][SanitizeCall]_vars

\* ---- extract_paper_metadata ----

\* The field rows of the modelled detail pages.
FieldRows ==
    { Row("Authors", T_AB, <<>>),
      Row("authors", T_AB, <<>>),
      Row("Publication date", T_2020, <<>>),
      Row("Keywords", T_AB, <<>>),
      Row("Total citations", T_Cited42, <<T_Cited42>>),
      Row("Total citations", T_nd, <<T_nd>>),
      Row("Total citations", T_Cited42, <<>>) }
FieldTables == SeqsUpTo(FieldRows, MaxFields)

ExtractInit == FnCall(FieldTables)

ExtractCall ==
    /\ fn_pc = "call"
    /\ fn_out' = extract_paper_metadata(fn_in)
    /\ fn_pc' = "done"
    /\ UNCHANGED <<fn_in, fpVars, authorVars, srcVars>>

ExtractSpec == ExtractInit /\ [][ExtractCall]_vars

\* ---- the choice of the PDF link in download_pdf_from_scholar_article ----

T_DownloadPDF ==
    <<"D", "o", "w", "n", "l", "o", "a", "d", " ", "P", "D", "F">>

\* The anchors of the modelled detail pages; the last one has no href.
Anchors ==
    { AnchorPDF,
      [text |-> T_HTML, href |-> "html1"],
      [text |-> T_DownloadPDF, href |-> "pdf2"],
      [text |-> T_PDF, href |-> ""] }
AnchorLists == SeqsUpTo(Anchors, MaxAnchors)

\* The answers to the requests of a call whose requests succeed.
EnvOk ==
    [pdf |-> "200", write |-> "ok", stale |-> FALSE, create_ok |-> TRUE,
     get_ok |-> TRUE]

SelectInit == FnCall(AnchorLists)

\* download_pdf_from_scholar_article on a page with these anchors.
SelectCall ==
    /\ fn_pc = "call"
    /\ fn_out' = download_pdf_from_scholar_article(
                     [status |-> "200",
                      rows |-> <<Row("Authors", T_AB, <<>>)>>,
                      anchors |-> fn_in],
                     T_Foo, NoYear, FALSE, "None", FALSE, EnvOk)
    /\ fn_pc' = "done"
    /\ UNCHANGED <<fn_in, fpVars, authorVars, srcVars>>

SelectSpec == SelectInit /\ [][SelectCall]_vars

-----------------------------------------------------------------------------
(* Claims about fetch_and_parse *)

RECURSIVE ConcatPages(_, _)
\* The stubs of the first k served pages, in order.
ConcatPages(srv, k) ==
    IF k = 0 THEN <<>>
    ELSE ConcatPages(srv, k - 1) \o (IF k <= Len(srv) THEN srv[k] ELSE <<>>)

\* The page is a repeat: its last stub equals the last stub accumulated.
IsRepeat(res, fetched) ==
    /\ res # <<>>
    /\ fetched # <<>>
    /\ fetched[Len(fetched)] = res[Len(res)]

\* C2: when the page just fetched is a repeat (its last stub equals the last
\* stub accumulated so far), fetch_and_parse stops at that page and returns
\* exactly the stubs of the earlier pages, in order, with nothing of the
\* repeat page appended.
C2_RepeatPageStops ==
    [][ (/\ fp_pc = "running"
         /\ fp_err' # "HTTPError"
         /\ IsRepeat(results, PageAt(served, pagination)))
        => (/\ fp_pc' = "returned"
            /\ results' = results
            /\ results' = ConcatPages(served, pagination \div PageSize)) ]_vars

\* Witness of C2: a run that accumulated two pages and returned at a repeat.
C2_Witness ==
    /\ fp_pc = "returned"
    /\ pagination >= 2 * PageSize
    /\ Len(results) >= 3
    /\ IsRepeat(results, PageAt(served, pagination))

\* The author has no publication: every listing page is empty.
ZeroPublications == \A k \in 1..Len(served) : served[k] = <<>>

\* C3: on an author with zero publications fetch_and_parse returns [] and
\* does not go on requesting pages: by the time it has consumed MaxPages
\* empty pages it has returned the empty sequence.
C3_ZeroPublicationsReturnsEmpty ==
    (ZeroPublications /\ pagination >= MaxPages * PageSize)
        => (fp_pc = "returned" /\ results = <<>>)

\* C4: an empty page fetched after stubs were accumulated ends the loop
\* cleanly: fetch_and_parse returns the accumulated stubs and does not raise.
C4_EmptyPageStopsCleanly ==
    (/\ results # <<>>
     /\ PageAt(served, pagination) = <<>>
     /\ fp_pc # "running"
     /\ fp_err # "HTTPError")
        => (/\ fp_pc = "returned"
            /\ results = ConcatPages(served, pagination \div PageSize))

-----------------------------------------------------------------------------
(* Claims about scrape_author_papers *)

\* A record was appended by this step.
Appended == Len(papers_metadata') = Len(papers_metadata) + 1
NewRecord == papers_metadata'[Len(papers_metadata')]
NewLog == io_log'[Len(io_log')]

\* The records with a given status.
WithStatus(st) ==
    { k \in 1..Len(papers_metadata) : papers_metadata[k].download_status = st }

\* C1: a publication whose derived artifact file is already in the author's
\* folder gets the status already_exists, and no PDF request and no file
\* write is made for it.
C1_ExistingArtifactNotDownloaded ==
    [][ (Appended /\ NewRecord.pdf_filename \in at_call.folder_files)
        => (/\ NewRecord.download_status = "already_exists"
            /\ ~NewLog.pdf_get
            /\ NewLog.wrote = <<>>) ]_vars

\* The ledger: the files of the folder at the start of the run plus the file
\* names of the records marked downloaded so far.
LedgerIsStartPlusDownloaded ==
    downloaded_papers =
        at_call.folder_files
        \cup { papers_metadata[k].pdf_filename : k \in WithStatus("downloaded") }

\* C5: every record appended carries exactly one of the three statuses:
\* already_exists if and only if its file name is in the ledger at that
\* moment (the files of the folder at run start plus the names recorded as
\* downloaded earlier in the run), otherwise downloaded if the download step
\* returned a non-null result, otherwise failed.
C5_DispositionClassification ==
    [][ /\ Appended =>
            /\ NewRecord.download_status \in {"already_exists", "downloaded", "failed"}
            /\ NewRecord.download_status = "already_exists"
                   <=> NewRecord.pdf_filename \in downloaded_papers
            /\ NewRecord.download_status = "downloaded"
                   <=> (/\ NewRecord.pdf_filename \notin downloaded_papers
                        /\ NewLog.result # "None")
        /\ pc' = "loop" => LedgerIsStartPlusDownloaded' ]_vars

\* Witness of C5: a record marked downloaded whose file was not in the
\* folder at the start, then a record with the same file name marked
\* already_exists although its own download returned a result.
C5_Witness ==
    /\ Len(papers_metadata) = 2
    /\ papers_metadata[1].download_status = "downloaded"
    /\ papers_metadata[2].download_status = "already_exists"
    /\ papers_metadata[1].pdf_filename \notin at_call.folder_files
    /\ io_log[Len(io_log)].result # "None"

\* C6: with max_papers > 0 the stubs are consumed in listing order, the
\* number of records marked downloaded never exceeds max_papers, only those
\* records count, and once the count equals max_papers no further stub is
\* processed: the last stub consumed is the one whose record was marked
\* downloaded last.
C6_DownloadCap ==
    pc \in {"loop", "finally", "returned", "raised"} =>
        /\ idx = Len(io_log)
        /\ \A k \in 1..Len(io_log) : io_log[k].url = items[k].url
        /\ downloaded_count = Cardinality(WithStatus("downloaded"))
        /\ max_papers > 0 =>
              /\ Cardinality(WithStatus("downloaded")) <= max_papers
              /\ downloaded_count = max_papers =>
                    /\ papers_metadata[Len(papers_metadata)].download_status
                           = "downloaded"
                    /\ papers_metadata[Len(papers_metadata)].scholar_url
                           = io_log[Len(io_log)].url

\* Witness of C6: the cap was reached with a stub of the listing left over.
C6_Witness ==
    /\ pc = "returned"
    /\ max_papers > 0
    /\ downloaded_count = max_papers
    /\ idx < Len(items)

\* C7: one record per stub whose detail page was fetched (HTTP 200), also
\* when the page yielded no recognized field, and none for a stub whose
\* detail fetch failed.
C7_OneRecordPerFetchedPage ==
    ~pending_exc =>
        Len(papers_metadata)
            = Cardinality({ k \in 1..Len(io_log) : io_log[k].detail_ok })

\* C9: when scrape_author_papers has returned or raised, the working
\* directory is the one it was called in.
C9_WorkingDirectoryRestored ==
    pc \in {"returned", "raised"} => cwd = at_call.cwd

\* Witness of C9: an exception raised inside the loop, after the chdir, has
\* left the function.
C9_Witness ==
    /\ pc = "raised"
    /\ pending_exc
    /\ io_log # <<>>
    /\ original_dir = at_call.cwd

\* C10 as claimed: after a normal return the persisted table holds exactly
\* the records appended in this run, also when the run appended none.
C10_TableHoldsThisRunsRecords ==
    pc = "returned" => table.rows = papers_metadata

\* C10 amended: after a normal return of a run that appended at least one
\* record the table holds exactly these records, in order; a run that
\* appended none leaves the table as it was.
C10_TableOverwrittenWhenRecords ==
    pc = "returned" =>
        IF papers_metadata # <<>>
        THEN table = [exists |-> TRUE, rows |-> papers_metadata]
        ELSE table = at_call.table

\* Witness of C10: a run over a folder holding an earlier table returned
\* after appending two records.
C10_Witness ==
    /\ pc = "returned"
    /\ at_call.table = PriorTable
    /\ Len(papers_metadata) = 2
    /\ table.rows = papers_metadata

\* The exits of the download step that are soft failures: the detail page
\* was not fetched, it has no artifact link, the artifact request failed,
\* the file could not be written.
SoftExits ==
    { "detail_failed", "no_link", "pdf_non200", "pdf_exception", "write_error" }

\* The stubs consumed so far are the first ones of the listing, each once.
ConsumedInOrder ==
    /\ Len(io_log) = idx
    /\ idx <= Len(items)
    /\ \A k \in 1..idx : io_log[k].url = items[k].url

\* C17: a stub that ends in a soft failure does not interrupt the loop: the
\* next stub is the next one processed; and with no cap a run in its loop
\* reaches the end of the loop having processed every stub of the listing
\* exactly once, in listing order, and flushes the table, unless an
\* exception or an interrupt ended it.
C17_SoftFailuresDoNotInterrupt ==
    /\ [][ (/\ pc = "loop"
            /\ Len(io_log') = Len(io_log) + 1
            /\ NewLog.exit \in SoftExits)
           => (/\ pc' = "loop"
               /\ ~pending_exc'
               /\ idx' = idx + 1
               /\ ConsumedInOrder') ]_vars
    /\ (pc = "loop" /\ max_papers = -1)
           ~> (/\ pc = "finally"
               /\ ConsumedInOrder
               /\ ~pending_exc => idx = Len(items))
    /\ [][ (pc = "loop" /\ pc' = "finally" /\ ~pending_exc' /\ max_papers = -1)
           => (/\ idx = Len(items)
               /\ table' = IF papers_metadata # <<>>
                            THEN [exists |-> TRUE, rows |-> papers_metadata]
                            ELSE table) ]_vars

\* Witness of C17: a run without cap returned after two stubs, the first
\* ending in a write error and the second in a failed detail fetch.
C17_Witness ==
    /\ pc = "returned"
    /\ max_papers = -1
    /\ Len(items) = 2
    /\ idx = 2
    /\ io_log[1].exit = "write_error"
    /\ io_log[2].exit = "detail_failed"

\* Records j < k of this run carry the same derived file name.
Collide(j, k) ==
    /\ j < k
    /\ papers_metadata[j].pdf_filename = papers_metadata[k].pdf_filename

\* C18 as claimed: of two publications of a run with the same sanitized
\* (title, year) the second is recorded as already_exists, whatever the
\* download outcome of the first.
C18_SecondAlwaysExists ==
    \A k \in 1..Len(papers_metadata) : \A j \in 1..Len(papers_metadata) :
        Collide(j, k) => papers_metadata[k].download_status = "already_exists"

\* C18 amended: the second is recorded as already_exists when the first was
\* recorded as downloaded or already_exists; when every earlier publication
\* of that file name failed and the folder did not hold the file, the second
\* is classified by its own download, as downloaded or failed.
C18_SecondExistsUnlessFirstFailed ==
    \A k \in 1..Len(papers_metadata) :
        /\ \A j \in 1..Len(papers_metadata) :
              (Collide(j, k) /\ papers_metadata[j].download_status # "failed")
                  => papers_metadata[k].download_status = "already_exists"
        /\ (/\ papers_metadata[k].pdf_filename \notin at_call.folder_files
            /\ \A j \in 1..Len(papers_metadata) :
                  Collide(j, k) => papers_metadata[j].download_status = "failed")
              => papers_metadata[k].download_status # "already_exists"

\* Witness of C18: two different titles with one file name, the first
\* downloaded, the second recorded as already_exists.
C18_Witness ==
    /\ Len(papers_metadata) = 2
    /\ Collide(1, 2)
    /\ papers_metadata[1].title # papers_metadata[2].title
    /\ papers_metadata[1].download_status = "downloaded"
    /\ papers_metadata[2].download_status = "already_exists"
    /\ io_log[2].exit = "saved"

\* C19: while the loop runs the ledger is the set of artifact files of the
\* folder, and a record marked downloaded names the file this iteration
\* wrote.
C19_LedgerMatchesFolder ==
    [][ pc' = "loop" =>
            /\ downloaded_papers' = folder_files'
            /\ (Appended /\ NewRecord.download_status = "downloaded")
                   => NewLog.wrote = NewRecord.pdf_filename ]_vars

\* C20: at most one browser is live at any time, and the global driver
\* refers to it; a browser is started only by an iteration whose artifact
\* request returned non-200 with the fallback enabled, and while one is live
\* a new one is started only after the old one was found dead and quit; when
\* the run has ended, by return, by error or by interrupt, none is live.
C20_DriverLifecycle ==
    /\ [](/\ live_browsers \in {0, 1}
          /\ driver = "live" <=> live_browsers = 1
          /\ pc \in {"returned", "raised"} => live_browsers = 0)
    /\ [][ (Len(io_log') = Len(io_log) + 1) =>
             /\ NewLog.started = 1 =>
                   /\ use_selenium
                   /\ NewLog.exit = "pdf_non200"
                   /\ live_browsers = 1 => NewLog.quit = 1
             /\ (live_browsers = 1 /\ NewLog.started = 0 /\ NewLog.quit = 0)
                   => driver' = driver ]_vars

\* Witness of C20: a browser was started by the first of two stubs and the
\* run, without cap, was then interrupted; no browser is left.
C20_Witness ==
    /\ pc = "raised"
    /\ max_papers = -1
    /\ Len(items) = 2
    /\ Len(io_log) = 1
    /\ io_log[1].started = 1
    /\ live_browsers = 0

-----------------------------------------------------------------------------
(* Claims about scrape_from_source *)

\* The reference of a row is empty or missing: NaN, or nothing but white space.
EmptyReference(cell) ==
    cell.isna \/ \A i \in 1..Len(cell.text) : cell.text[i] \in Whitespace

\* C8: the rows are handled in order; a row is skipped exactly when its
\* reference is empty or missing, and single-author processing runs for
\* every other row; an exception raised by it does not end the iteration:
\* scrape_from_source ends only after the last row.
C8_RowsIsolated ==
    /\ Len(src_log) = row_i
    /\ \A k \in 1..row_i :
          /\ src_log[k].row = k
          /\ src_log[k].outcome = "skipped"
                 <=> EmptyReference(df.rows[k][column_name])
          /\ src_log[k].outcome \in {"skipped", "returned", "raised"}
    /\ src_pc = "done" => row_i = Len(df.rows)
    /\ src_pc = "raised" => row_i = 0

\* Witness of C8: a row whose author raised was followed by a row that was
\* processed, after a skipped row.
C8_Witness ==
    /\ src_pc = "done"
    /\ row_i = 3
    /\ src_log[1].outcome = "skipped"
    /\ src_log[2].outcome = "raised"
    /\ src_log[3].outcome = "returned"

\* The table has neither the configured column nor the fallback column.
NeitherColumn ==
    /\ "Google Scholar Page" \notin df.columns
    /\ "scholar_link" \notin df.columns

\* C15: when the table has neither the configured column nor the fallback
\* column scholar_link, scrape_from_source raises an error that names the
\* available columns, and no row is handled: no single-author run is started.
C15_MissingColumnIsFatal ==
    (NeitherColumn /\ src_pc # "check") =>
        /\ src_pc = "raised"
        /\ src_err = [type |-> "ValueError", columns |-> df.columns]
        /\ row_i = 0
        /\ src_log = <<>>

\* Witness of C15: the error was raised on a table that has rows with links.
C15_Witness ==
    /\ NeitherColumn
    /\ src_pc = "raised"
    /\ src_err.type = "ValueError"
    /\ src_err.columns = {"Name"}
    /\ Len(df.rows) = 3

-----------------------------------------------------------------------------
(* Claims about get_author_id *)

\* C11: get_author_id never returns an empty identifier: it returns a
\* non-empty identifier or fails with an error, also when the profile link
\* or the first search result link lacks the `user` parameter.
C11_NeverEmptyIdentifier ==
    fn_pc = "done" => (fn_out.raised \/ fn_out.id # "")

-----------------------------------------------------------------------------
(* Claims about the choice of the PDF link *)

\* The candidates whose visible text contains "pdf", whatever the case.
PdfHits(anchors) ==
    { i \in 1..Len(anchors) :
        \E j \in 1..(Len(anchors[i].text) - 2) :
            /\ anchors[i].text[j] \in {"p", "P"}
            /\ anchors[i].text[j + 1] \in {"d", "D"}
            /\ anchors[i].text[j + 2] \in {"f", "F"} }

FirstHit(anchors) ==
    CHOOSE h \in PdfHits(anchors) : \A g \in PdfHits(anchors) : h <= g

\* With no candidate the call returns a null path with the metadata, makes
\* no PDF request and raises nothing; with one candidate it is the one chosen.
NoneOrOnlyCandidate ==
    /\ fn_in = <<>> =>
          /\ ~fn_out.raised
          /\ fn_out.result = NoneResult
          /\ fn_out.has_metadata
          /\ ~fn_out.pdf_get
    /\ Len(fn_in) = 1 => fn_out.href = fn_in[1].href

\* C12 as claimed: with several candidates the one chosen is the first whose
\* visible text contains "pdf" (case-insensitively), and the last candidate
\* when none matches; the only candidate when there is one; none, with a null
\* path, the metadata and no exception, when there is no candidate.
C12_SelectionPolicy ==
    fn_pc = "done" =>
        /\ NoneOrOnlyCandidate
        /\ Len(fn_in) > 1 =>
              fn_out.href = IF PdfHits(fn_in) # {}
                            THEN fn_in[FirstHit(fn_in)].href
                            ELSE fn_in[Len(fn_in)].href

\* C12 amended: with several candidates the one chosen is the first whose
\* visible text contains "pdf" if that candidate has a link target, and the
\* last candidate otherwise (none matches, or the first match has no href).
C12_SelectionPolicyWithHref ==
    fn_pc = "done" =>
        /\ NoneOrOnlyCandidate
        /\ Len(fn_in) > 1 =>
              fn_out.href = IF /\ PdfHits(fn_in) # {}
                               /\ fn_in[FirstHit(fn_in)].href # ""
                            THEN fn_in[FirstHit(fn_in)].href
                            ELSE fn_in[Len(fn_in)].href

\* Witness of C12: of two candidates only the second reads "Download PDF",
\* and it was requested.
C12_Witness ==
    /\ fn_pc = "done"
    /\ Len(fn_in) = 2
    /\ PdfHits(fn_in) = {2}
    /\ fn_in[2].text = T_DownloadPDF
    /\ fn_out.href = "pdf2"
    /\ fn_out.pdf_get

-----------------------------------------------------------------------------
(* Claims about _safe_filename *)

\* C13: _safe_filename is idempotent: sanitizing a sanitized name changes
\* nothing.
C13_SanitizeIdempotent ==
    fn_pc = "done" => _safe_filename(fn_out) = fn_out

\* Witness of C13: a name with unsafe and white-space characters at its ends
\* was sanitized to something else than itself and than the default.
C13_Witness ==
    /\ fn_pc = "done"
    /\ fn_in = <<" ", "/", "a", " ">>
    /\ fn_out = <<"_", "a">>

\* The name is non-empty and made only of characters outside the safe set.
AllUnsafe(name) ==
    /\ name # <<>>
    /\ \A i \in 1..Len(name) : name[i] \notin SafeChars

\* C14: a non-empty name made only of characters outside the safe set is
\* sanitized to the default "paper"; in general every unsafe character is
\* replaced by "_", the result is trimmed, and the default stands in for an
\* empty result.
C14_AllUnsafeGivesDefault ==
    fn_pc = "done" =>
        /\ AllUnsafe(fn_in) => fn_out = T_paper
        /\ ~AllUnsafe(fn_in) =>
              fn_out = (LET n == strip(re_sub_unsafe_each(fn_in))
                        IN IF n = <<>> THEN T_paper ELSE n)

-----------------------------------------------------------------------------
(* Claims about extract_paper_metadata *)

\* The labels extraction recognizes, with the schema entry of each.
RecognizedLabels ==
    { "Authors", "Publication date", "Journal", "Volume", "Issue", "Pages",
      "Publisher", "Description", "Total citations" }

\* The rows of the table with a given label.
RowsNamed(rows, label) == { i \in 1..Len(rows) : rows[i].name = label }

\* C16: extraction yields one entry per row whose label is exactly a
\* recognized one and nothing for any other row; a "Total citations" value
\* of the form "Cited by <N>" yields the integer N and any other value 0;
\* every other entry is the text of its row.
C16_ExtractionMapsRecognizedLabels ==
    fn_pc = "done" =>
        /\ ~fn_out.raised
        /\ DOMAIN fn_out.metadata
               = { field_key(fn_in[i].name) :
                     i \in { j \in 1..Len(fn_in) : fn_in[j].name \in RecognizedLabels } }
        /\ \A label \in RecognizedLabels :
              \A i \in RowsNamed(fn_in, label) :
                  RowsNamed(fn_in, label) = {i} =>
                      fn_out.metadata[field_key(label)]
                          = IF label = "Total citations"
                            THEN cited_by(fn_in[i].value)
                            ELSE fn_in[i].value

====
